---- MODULE Spec2Model ----
(***************************************************************************)
(* A model of the snake_case crate (src/src/lib.rs): the validator         *)
(* is_snake_case, the owning string type SnakeCase and the borrowing type  *)
(* SnakeCaseRef built on it.                                               *)
(*                                                                         *)
(* A text (&str / String) is modelled as the sequence of its Unicode       *)
(* scalar values; as_bytes gives its UTF-8 encoding, on which the          *)
(* validator and the comparisons of str work.                              *)
(***************************************************************************)
EXTENDS Integers, Sequences, FiniteSets, TLC

\* ------------------------------------------------------------------------
\* Bounds of the model

\* Longest text (in characters) handed to the validator and the constructors.
MaxLen == 3

\* Most values alive at once in a run of the API.
MaxVals == 2

\* Buckets of the hash table of a HashSet.
NBuckets == 2

\* Most keys held by the HashSet.
MaxSet == 2

\* The characters texts are made of: '_' 'a' '0' (one of each accepted
\* class), 'A' (ASCII, not accepted), and one character of each multi-byte
\* UTF-8 length: U+00E9 (2 bytes), U+20AC (3 bytes), U+1F40D (4 bytes).
Chars == {95, 97, 48, 65, 233, 8364, 128013}

RECURSIVE SeqsOfLen(_)
SeqsOfLen(n) ==
    IF n = 0 THEN {<<>>}
    ELSE {Append(s, c) : s \in SeqsOfLen(n - 1), c \in Chars}

\* Every text of at most MaxLen characters.
Strings == UNION {SeqsOfLen(n) : n \in 0..MaxLen}

\* ------------------------------------------------------------------------
\* str::len / str::as_bytes (line 15): the UTF-8 encoding of a text

\* The UTF-8 encoding of one scalar value.
encode_utf8(c) ==
    IF c < 128 THEN <<c>>
    ELSE IF c < 2048 THEN <<192 + (c \div 64), 128 + (c % 64)>>
    ELSE IF c < 65536 THEN
        <<224 + (c \div 4096), 128 + ((c \div 64) % 64), 128 + (c % 64)>>
    ELSE
        <<240 + (c \div 262144), 128 + ((c \div 4096) % 64),
          128 + ((c \div 64) % 64), 128 + (c % 64)>>

RECURSIVE as_bytes(_)
as_bytes(string) ==
    IF string = <<>> THEN <<>>
    ELSE encode_utf8(Head(string)) \o as_bytes(Tail(string))

\* ------------------------------------------------------------------------
\* is_snake_case (lines 12-37)

\* b == b'_' || b'a' <= b && b <= b'z'
valid_start(b) == b = 95 \/ (97 <= b /\ b <= 122)

\* b'a' <= c && c <= b'z' || b'0' <= c && c <= b'9' || c == b'_'
is_snake_case_character_open(c) ==
    (97 <= c) \/ (48 <= c /\ c <= 57) \/ c = 95

is_snake_case_character(c) ==
    (97 <= c /\ c <= 122) \/ (48 <= c /\ c <= 57) \/ c = 95

\* bytes.is_empty()
is_empty_never(bytes) == FALSE

is_empty(bytes) == Len(bytes) = 0

\* The positions of the function body: "guard" is the test of line 23,
\* "loop" the head of the loop of line 28, "done" a return, "panic" an
\* aborted call (an index out of bounds, an arithmetic overflow).
Goto(l, n)  == [pc |-> l, i |-> n, ret |-> FALSE]
Return(b)   == [pc |-> "done", i |-> 0, ret |-> b]
Panic       == [pc |-> "panic", i |-> 0, ret |-> FALSE]

\* Lines 23-27.  bytes[0] is read only when bytes is not empty, as || is
\* short-circuit; an index past the end panics.
Guard(bytes) ==
    IF is_empty(bytes) THEN Return(FALSE)
    ELSE IF ~(0 < Len(bytes)) THEN Panic
    ELSE IF ~valid_start(bytes[1]) THEN Return(FALSE)
    ELSE Goto("loop", 1)

\* Lines 28-36, one iteration.  len - 1 is a usize subtraction: with len = 0
\* it panics where overflow checks are on (and in const evaluation) and
\* wraps to usize::MAX where they are off, after which bytes[i] is out of
\* bounds: the call panics in either build.
LoopBody(bytes, i) ==
    LET len == Len(bytes) IN
    IF len = 0 THEN Panic
    ELSE IF i >= len - 1 THEN Return(TRUE)
    ELSE IF ~(i < len) THEN Panic
    ELSE IF ~is_snake_case_character(bytes[i + 1]) THEN Return(FALSE)
    ELSE Goto("loop", i + 1)

\* The function as a whole: the guard, then the loop run to its end.
RECURSIVE Run(_, _)
Run(bytes, st) ==
    IF st.pc = "loop" THEN Run(bytes, LoopBody(bytes, st.i)) ELSE st

is_snake_case(string) ==
    LET st == Run(as_bytes(string), Guard(as_bytes(string))) IN
    st.pc = "done" /\ st.ret

\* ------------------------------------------------------------------------
\* The grammar ^[_a-z][_a-z0-9]*$ of the documentation (lines 10-11, 48-51)

StartByte == {95} \cup (97..122)
RestByte  == {95} \cup (97..122) \cup (48..57)

Grammar(string) ==
    LET bytes == as_bytes(string) IN
    /\ Len(bytes) >= 1
    /\ bytes[1] \in StartByte
    /\ \A k \in 1..Len(bytes) : bytes[k] \in RestByte

\* ------------------------------------------------------------------------
\* Primitives of str the crate relies on

\* <str as PartialEq>::eq: two texts are equal when their bytes are.
str_eq(a, b) == as_bytes(a) = as_bytes(b)

\* <str as Ord>::cmp: lexicographic on the bytes.
RECURSIVE cmp_bytes(_, _)
cmp_bytes(a, b) ==
    IF a = <<>> /\ b = <<>> THEN "Equal"
    ELSE IF a = <<>> THEN "Less"
    ELSE IF b = <<>> THEN "Greater"
    ELSE IF Head(a) < Head(b) THEN "Less"
    ELSE IF Head(a) > Head(b) THEN "Greater"
    ELSE cmp_bytes(Tail(a), Tail(b))

str_cmp(a, b) == cmp_bytes(as_bytes(a), as_bytes(b))

\* <str as Hash>::hash: what is written to the hasher, the bytes and then
\* the byte 0xff.
str_hash(s) == as_bytes(s) \o <<255>>

\* str::to_string / String::clone: a new String of the same bytes.
to_string_truncated(s) == IF Len(s) > 1 THEN SubSeq(s, 1, Len(s) - 1) ELSE s

to_string(s) == s

\* ------------------------------------------------------------------------
\* The values (lines 41-54, 160-162) and Result

InvalidSnakeCase == [ty |-> "InvalidSnakeCase", s |-> <<>>]

\* The tuple structs SnakeCase(String) and SnakeCaseRef(&str); s is field 0.
SnakeCase(s)    == [ty |-> "SnakeCase", s |-> s]
SnakeCaseRef(s) == [ty |-> "SnakeCaseRef", s |-> s]

Ok(v)  == [ok |-> TRUE, v |-> v]
Err(e) == [ok |-> FALSE, v |-> e]

\* ------------------------------------------------------------------------
\* impl SnakeCase (lines 56-80) and its trait impls (lines 82-151)

SnakeCase_try_from_str(s) ==
    IF is_snake_case(s) THEN Ok(SnakeCase(to_string(s)))
    ELSE Err(InvalidSnakeCase)

SnakeCase_try_from_string(s) ==
    IF is_snake_case(s) THEN Ok(SnakeCase(s))
    ELSE Err(InvalidSnakeCase)

SnakeCase_as_str(self) == self.s

SnakeCase_as_ref_first(self) == SnakeCaseRef(SubSeq(self.s, 1, 1))

SnakeCase_as_ref(self) == SnakeCaseRef(self.s)

\* TryFrom<&str> and TryFrom<String>
SnakeCase_try_from_ref(s) == SnakeCase_try_from_str(s)

SnakeCase_try_from_owned(s) == SnakeCase_try_from_string(s)

\* Borrow<str>
SnakeCase_borrow(self) == self.s

\* Debug and Display hand as_str() to the formatter of str.
SnakeCase_fmt(self) == SnakeCase_as_str(self)

\* derive(Clone, Eq, Hash, Ord, PartialEq, PartialOrd), line 52: each works
\* on the String of field 0.
SnakeCase_clone(self) == SnakeCase(to_string(self.s))

SnakeCase_eq(self, other) == str_eq(self.s, other.s)

SnakeCase_cmp(self, other) == str_cmp(self.s, other.s)

SnakeCase_hash_tagged(self) == <<Len(self.s)>> \o str_hash(self.s)

SnakeCase_hash(self) == str_hash(self.s)

\* PartialEq<SnakeCase> for &str
str_ref_eq_SnakeCase(self, other) == str_eq(self, SnakeCase_as_str(other))

\* PartialEq<str> for SnakeCase
SnakeCase_eq_str_starts_with(self, other) ==
    LET a == as_bytes(SnakeCase_as_str(self))
        b == as_bytes(other) IN
    Len(b) <= Len(a) /\ SubSeq(a, 1, Len(b)) = b

SnakeCase_eq_str(self, other) == str_eq(SnakeCase_as_str(self), other)

\* PartialEq<&str> for SnakeCase
SnakeCase_eq_str_ref(self, other) == str_eq(SnakeCase_as_str(self), other)

\* PartialEq<String> for SnakeCase
SnakeCase_eq_String(self, other) == str_eq(SnakeCase_as_str(self), other)

\* ------------------------------------------------------------------------
\* impl SnakeCaseRef (lines 164-180) and its trait impls (lines 207-261)

SnakeCaseRef_try_from_str(s) ==
    IF is_snake_case(s) THEN Ok(SnakeCaseRef(s))
    ELSE Err(InvalidSnakeCase)

SnakeCaseRef_as_str(self) == self.s

SnakeCaseRef_to_owned(self) == SnakeCase(to_string(self.s))

\* from_str_unchecked (lines 182-186): no check at all
from_str_unchecked(s) == SnakeCaseRef(s)

\* TryFrom<&'a str>
SnakeCaseRef_try_from(s) == SnakeCaseRef_try_from_str(s)

\* Borrow<str>
SnakeCaseRef_borrow(self) == self.s

\* Debug and Display
SnakeCaseRef_fmt(self) == SnakeCaseRef_as_str(self)

\* derive(Copy, Clone, Eq, Hash, Ord, PartialEq, PartialOrd), line 160: each
\* works on the &str of field 0.
SnakeCaseRef_copy(self) == SnakeCaseRef(self.s)

SnakeCaseRef_eq(self, other) == str_eq(self.s, other.s)

SnakeCaseRef_cmp(self, other) == str_cmp(self.s, other.s)

SnakeCaseRef_hash(self) == str_hash(self.s)

\* PartialEq<SnakeCaseRef<'_>> for str
str_eq_SnakeCaseRef(self, other) == str_eq(self, other.s)

\* PartialEq<SnakeCaseRef<'_>> for &str
str_ref_eq_SnakeCaseRef(self, other) == str_eq(self, other.s)

\* PartialEq<str> for SnakeCaseRef<'_>
SnakeCaseRef_eq_str(self, other) == str_eq(SnakeCaseRef_as_str(self), other)

\* PartialEq<&str> for SnakeCaseRef<'_>
SnakeCaseRef_eq_str_ref(self, other) == str_eq(SnakeCaseRef_as_str(self), other)

\* PartialEq<String> for SnakeCaseRef<'_>
SnakeCaseRef_eq_String(self, other) == str_eq(SnakeCaseRef_as_str(self), other)

\* ------------------------------------------------------------------------
\* std::collections::HashSet<SnakeCase>, as the crate's test uses it (lines
\* 303-306): buckets chosen by the hash of the key, keys compared within a
\* bucket.  A lookup by &str goes through Borrow<str>.

RECURSIVE SumBytes(_)
SumBytes(stream) ==
    IF stream = <<>> THEN 0 ELSE Head(stream) + SumBytes(Tail(stream))

\* Hasher::finish, reduced to a bucket: a function of the bytes written.
bucket_of(stream) == SumBytes(stream) % NBuckets

EmptySet == [b \in 0..(NBuckets - 1) |-> <<>>]

SetSize(set) == SumBytes([b \in 1..NBuckets |-> Len(set[b - 1])])

\* HashSet::contains(&str): hash the text, compare it with the borrow of
\* each key of its bucket.
HashSet_contains(set, q) ==
    LET chain == set[bucket_of(str_hash(q))] IN
    \E k \in 1..Len(chain) : str_eq(SnakeCase_borrow(chain[k]), q)

\* HashSet::insert(SnakeCase): hash the key, keep it unless its bucket holds
\* an equal key.
HashSet_insert(set, v) ==
    LET b == bucket_of(SnakeCase_hash(v))
        chain == set[b] IN
    IF \E k \in 1..Len(chain) : SnakeCase_eq(chain[k], v) THEN set
    ELSE [set EXCEPT ![b] = Append(chain, v)]

\* ------------------------------------------------------------------------
\* State

VARIABLES
    string,     \* the argument of the call of is_snake_case under way
    pc,         \* its position: "guard", "loop", "done" or "panic"
    i,          \* the loop index of line 27
    ret,        \* its result, once pc = "done"
    iters,      \* the iterations of the loop begun so far
    input,      \* the text the caller holds
    vals,       \* the SnakeCase and SnakeCaseRef values made so far
    out,        \* what the last operation was given and what it returned
    set,        \* a HashSet<SnakeCase>
    inserted    \* the texts whose SnakeCase was inserted into set

scan_vars == <<string, pc, i, ret, iters>>
api_vars  == <<input, vals, out>>
set_vars  == <<set, inserted>>

vars == <<string, pc, i, ret, iters, input, vals, out, set, inserted>>

NoOut == [op |-> "none", a |-> 0, b |-> 0, txt |-> <<>>, ok |-> FALSE, ord |-> ""]

\* The raw texts a value is compared with and a set is probed with: the
\* caller's text, the text without its last character, the text with one
\* character more.
Probes ==
    {input, Append(input, 97)}
        \cup (IF input = <<>> THEN {} ELSE {SubSeq(input, 1, Len(input) - 1)})

ScanIdle ==
    /\ string = <<>>
    /\ pc = "idle"
    /\ i = 0
    /\ ret = FALSE
    /\ iters = 0

ApiIdle ==
    /\ input = <<>>
    /\ vals = <<>>
    /\ out = NoOut

SetIdle ==
    /\ set = EmptySet
    /\ inserted = {}

\* ------------------------------------------------------------------------
\* The call of is_snake_case, one step at a time

ScanInit ==
    /\ string \in Strings
    /\ pc = "guard"
    /\ i = 0
    /\ ret = FALSE
    /\ iters = 0
    /\ ApiIdle
    /\ SetIdle

\* Lines 23-27
ScanGuard ==
    /\ pc = "guard"
    /\ LET st == Guard(as_bytes(string)) IN
        /\ pc' = st.pc
        /\ i' = st.i
        /\ ret' = st.ret
    /\ UNCHANGED <<string, iters, api_vars, set_vars>>

\* Lines 28-36, one iteration
ScanLoop ==
    /\ pc = "loop"
    /\ LET st == LoopBody(as_bytes(string), i) IN
        /\ pc' = st.pc
        /\ i' = st.i
        /\ ret' = st.ret
    /\ iters' = iters + 1
    /\ UNCHANGED <<string, api_vars, set_vars>>

ScanNext == ScanGuard \/ ScanLoop

SpecScan == ScanInit /\ [][ScanNext]_vars

\* ------------------------------------------------------------------------
\* The API: a caller holding the text input applies the operations of the
\* crate to it and to the values it has made.

Init ==
    /\ input \in Strings
    /\ vals = <<>>
    /\ out = NoOut
    /\ ScanIdle
    /\ SetIdle

IsOwned(k) == k \in 1..Len(vals) /\ vals[k].ty = "SnakeCase"
IsRef(k)   == k \in 1..Len(vals) /\ vals[k].ty = "SnakeCaseRef"

\* A constructor called on input returned r.
Constructed(op, r) ==
    /\ r.ok => Len(vals) < MaxVals
    /\ vals' = IF r.ok THEN Append(vals, r.v) ELSE vals
    /\ out' = [NoOut EXCEPT !.op = op, !.txt = input, !.ok = r.ok,
                            !.a = IF r.ok THEN Len(vals) + 1 ELSE 0]
    /\ UNCHANGED <<input, scan_vars, set_vars>>

\* A conversion of vals[k] returned the new value v.
Converted(op, k, v) ==
    /\ Len(vals) < MaxVals
    /\ vals' = Append(vals, v)
    /\ out' = [NoOut EXCEPT !.op = op, !.a = Len(vals) + 1, !.b = k, !.ok = TRUE]
    /\ UNCHANGED <<input, scan_vars, set_vars>>

\* A read of vals[k] returned the text txt.
ReadText(op, k, txt) ==
    /\ out' = [NoOut EXCEPT !.op = op, !.a = k, !.txt = txt, !.ok = TRUE]
    /\ UNCHANGED <<input, vals, scan_vars, set_vars>>

\* A comparison of vals[k] with the raw text t returned res.
ComparedText(op, k, t, res) ==
    /\ out' = [NoOut EXCEPT !.op = op, !.a = k, !.txt = t, !.ok = res]
    /\ UNCHANGED <<input, vals, scan_vars, set_vars>>

\* A comparison of vals[k] with vals[j] returned res and the ordering ord.
ComparedVals(op, k, j, res, ord) ==
    /\ out' = [NoOut EXCEPT !.op = op, !.a = k, !.b = j, !.ok = res, !.ord = ord]
    /\ UNCHANGED <<input, vals, scan_vars, set_vars>>

TryFromStr    == Constructed("SnakeCase::try_from_str", SnakeCase_try_from_str(input))
TryFromString == Constructed("SnakeCase::try_from_string", SnakeCase_try_from_string(input))
TryFromRef    == Constructed("SnakeCase::try_from(&str)", SnakeCase_try_from_ref(input))
TryFromOwned  == Constructed("SnakeCase::try_from(String)", SnakeCase_try_from_owned(input))
RefTryFromStr == Constructed("SnakeCaseRef::try_from_str", SnakeCaseRef_try_from_str(input))
RefTryFrom    == Constructed("SnakeCaseRef::try_from", SnakeCaseRef_try_from(input))

\* snake_case_lit!(input), lines 195-205: the program builds only when
\* is_snake_case(input) is true at compile time, and then calls
\* from_str_unchecked.
SnakeCaseLit ==
    /\ is_snake_case(input)
    /\ Constructed("snake_case_lit", Ok(from_str_unchecked(input)))

AsRef(k)   == IsOwned(k) /\ Converted("as_ref", k, SnakeCase_as_ref(vals[k]))

ToOwnedMoving(k) ==
    /\ IsRef(k)
    /\ Len(vals) < MaxVals
    /\ vals' = Append([vals EXCEPT ![k] = SnakeCaseRef(<<>>)],
                      SnakeCaseRef_to_owned(vals[k]))
    /\ out' = [NoOut EXCEPT !.op = "to_owned", !.a = Len(vals) + 1, !.b = k, !.ok = TRUE]
    /\ UNCHANGED <<input, scan_vars, set_vars>>

ToOwned(k) == IsRef(k) /\ Converted("to_owned", k, SnakeCaseRef_to_owned(vals[k]))

Clone(k)   == IsOwned(k) /\ Converted("clone", k, SnakeCase_clone(vals[k]))

Copy(k)    == IsRef(k) /\ Converted("copy", k, SnakeCaseRef_copy(vals[k]))

AsStr(k) ==
    \/ IsOwned(k) /\ ReadText("as_str", k, SnakeCase_as_str(vals[k]))
    \/ IsRef(k) /\ ReadText("as_str", k, SnakeCaseRef_as_str(vals[k]))

Borrow(k) ==
    \/ IsOwned(k) /\ ReadText("borrow", k, SnakeCase_borrow(vals[k]))
    \/ IsRef(k) /\ ReadText("borrow", k, SnakeCaseRef_borrow(vals[k]))

Fmt(k) ==
    \/ IsOwned(k) /\ ReadText("fmt", k, SnakeCase_fmt(vals[k]))
    \/ IsRef(k) /\ ReadText("fmt", k, SnakeCaseRef_fmt(vals[k]))

Hash(k) ==
    \/ IsOwned(k) /\ ReadText("hash", k, SnakeCase_hash(vals[k]))
    \/ IsRef(k) /\ ReadText("hash", k, SnakeCaseRef_hash(vals[k]))

\* The comparisons of a SnakeCase with a raw text, lines 129-151
EqOwnedText(k, t) ==
    /\ IsOwned(k)
    /\ \/ ComparedText("&str == SnakeCase", k, t, str_ref_eq_SnakeCase(t, vals[k]))
       \/ ComparedText("SnakeCase == str", k, t, SnakeCase_eq_str(vals[k], t))
       \/ ComparedText("SnakeCase == &str", k, t, SnakeCase_eq_str_ref(vals[k], t))
       \/ ComparedText("SnakeCase == String", k, t, SnakeCase_eq_String(vals[k], t))

\* The comparisons of a SnakeCaseRef with a raw text, lines 233-261
EqRefText(k, t) ==
    /\ IsRef(k)
    /\ \/ ComparedText("str == SnakeCaseRef", k, t, str_eq_SnakeCaseRef(t, vals[k]))
       \/ ComparedText("&str == SnakeCaseRef", k, t, str_ref_eq_SnakeCaseRef(t, vals[k]))
       \/ ComparedText("SnakeCaseRef == str", k, t, SnakeCaseRef_eq_str(vals[k], t))
       \/ ComparedText("SnakeCaseRef == &str", k, t, SnakeCaseRef_eq_str_ref(vals[k], t))
       \/ ComparedText("SnakeCaseRef == String", k, t, SnakeCaseRef_eq_String(vals[k], t))

\* The derived comparisons of two values of one type, lines 52 and 160
CmpVals(k, j) ==
    \/ /\ IsOwned(k) /\ IsOwned(j)
       /\ ComparedVals("SnakeCase == SnakeCase", k, j,
                       SnakeCase_eq(vals[k], vals[j]), SnakeCase_cmp(vals[k], vals[j]))
    \/ /\ IsRef(k) /\ IsRef(j)
       /\ ComparedVals("SnakeCaseRef == SnakeCaseRef", k, j,
                       SnakeCaseRef_eq(vals[k], vals[j]), SnakeCaseRef_cmp(vals[k], vals[j]))

Next ==
    \/ TryFromStr
    \/ TryFromString
    \/ TryFromRef
    \/ TryFromOwned
    \/ RefTryFromStr
    \/ RefTryFrom
    \/ SnakeCaseLit
    \/ \E k \in 1..MaxVals : AsRef(k)
    \/ \E k \in 1..MaxVals : ToOwned(k)
    \/ \E k \in 1..MaxVals : Clone(k)
    \/ \E k \in 1..MaxVals : Copy(k)
    \/ \E k \in 1..MaxVals : AsStr(k)
    \/ \E k \in 1..MaxVals : Borrow(k)
    \/ \E k \in 1..MaxVals : Fmt(k)
    \/ \E k \in 1..MaxVals : Hash(k)
    \/ \E k \in 1..MaxVals, t \in Probes : EqOwnedText(k, t)
    \/ \E k \in 1..MaxVals, t \in Probes : EqRefText(k, t)
    \/ \E k \in 1..MaxVals, j \in 1..MaxVals : CmpVals(k, j)

Spec == Init /\ [][Next]_vars

\* ------------------------------------------------------------------------
\* The set: a caller inserts SnakeCase values built from texts around input
\* and probes the set with texts, lines 303-306.

SetInit ==
    /\ input \in Strings
    /\ vals = <<>>
    /\ out = NoOut
    /\ set = EmptySet
    /\ inserted = {}
    /\ ScanIdle

\* set.insert(SnakeCase::try_from_str(t).unwrap())
SetInsert(t) ==
    LET r == SnakeCase_try_from_str(t) IN
    /\ r.ok
    /\ SetSize(set) < MaxSet
    /\ set' = HashSet_insert(set, r.v)
    /\ inserted' = inserted \cup {t}
    /\ out' = [NoOut EXCEPT !.op = "insert", !.txt = t, !.ok = (set' # set)]
    /\ UNCHANGED <<input, vals, scan_vars>>

\* set.contains(SnakeCaseRef::try_from_str(q).unwrap().as_str())
SetContainsRef(q) ==
    LET r == SnakeCaseRef_try_from_str(q) IN
    /\ r.ok
    /\ out' = [NoOut EXCEPT !.op = "contains(ref)", !.txt = q,
                            !.ok = HashSet_contains(set, SnakeCaseRef_as_str(r.v))]
    /\ UNCHANGED <<input, vals, set, inserted, scan_vars>>

\* set.contains(q)
SetContainsStr(q) ==
    /\ out' = [NoOut EXCEPT !.op = "contains(str)", !.txt = q,
                            !.ok = HashSet_contains(set, q)]
    /\ UNCHANGED <<input, vals, set, inserted, scan_vars>>

SetNext ==
    \/ \E t \in Probes : SetInsert(t)
    \/ \E q \in Probes : SetContainsRef(q)
    \/ \E q \in Probes : SetContainsStr(q)

SpecSet == SetInit /\ [][SetNext]_vars

\* ------------------------------------------------------------------------
\* Properties

\* as_str of either type
ValStr(v) ==
    IF v.ty = "SnakeCase" THEN SnakeCase_as_str(v) ELSE SnakeCaseRef_as_str(v)

FallibleConstructors ==
    {"SnakeCase::try_from_str", "SnakeCase::try_from_string",
     "SnakeCaseRef::try_from_str"}

TextComparisons ==
    {"&str == SnakeCase", "SnakeCase == str", "SnakeCase == &str",
     "SnakeCase == String", "str == SnakeCaseRef", "&str == SnakeCaseRef",
     "SnakeCaseRef == str", "SnakeCaseRef == &str", "SnakeCaseRef == String"}

HasMultiByte(s) == \E k \in 1..Len(s) : s[k] >= 128

\* C1: a finished call of is_snake_case returns true exactly when the text
\* is non-empty, starts with '_' or a..z and every byte of it, the last one
\* included, is '_', a..z or 0..9.
C1_ReturnsGrammar == pc = "done" => (ret <=> Grammar(string))

\* C2: every SnakeCase and SnakeCaseRef value that exists has a content
\* matching ^[_a-z][_a-z0-9]*$.
C2_ValuesMatchGrammar == \A k \in 1..Len(vals) : Grammar(ValStr(vals[k]))

\* C3: a fallible constructor returns Ok exactly for the texts that satisfy
\* the grammar and Err for every other text.
C3_OkIffGrammar ==
    out.op \in FallibleConstructors => (out.ok <=> Grammar(out.txt))

C5_ProbeFindsInserted ==
    /\ out.op \in {"contains(ref)", "contains(str)"} =>
        (out.ok <=> out.txt \in inserted)
    /\ \A q \in inserted : HashSet_contains(set, q)

C5_Witness ==
    /\ out.op = "contains(ref)" /\ out.ok
    /\ Grammar(out.txt)
    /\ SetSize(set) = 2

\* C6: the SnakeCaseRef that as_ref made of an owning value v equals the
\* text v was built from, and its to_owned is equal to v and has the content
\* of v; a to_owned keeps the content of the value it was taken of.
C6_RoundTrip ==
    /\ out.op = "as_ref" =>
        LET v == vals[out.b]
            r == vals[out.a] IN
        /\ SnakeCase_eq(SnakeCaseRef_to_owned(r), v)
        /\ SnakeCase_as_str(SnakeCaseRef_to_owned(r)) = SnakeCase_as_str(v)
        /\ SnakeCaseRef_eq_str_ref(r, input)
        /\ SnakeCaseRef_as_str(r) = SnakeCase_as_str(v)
    /\ out.op = "to_owned" =>
        SnakeCase_as_str(vals[out.a]) = SnakeCaseRef_as_str(vals[out.b])

C6_Witness ==
    /\ out.op = "as_ref"
    /\ Grammar(input) /\ Len(input) >= 2
    /\ IsOwned(out.b) /\ IsRef(out.a)

\* C7: the as_str of the value a fallible constructor returned is the text
\* it was given, byte for byte.
C7_NoNormalization ==
    (out.op \in FallibleConstructors /\ out.ok) =>
        /\ out.a \in 1..Len(vals)
        /\ ValStr(vals[out.a]) = out.txt
        /\ as_bytes(ValStr(vals[out.a])) = as_bytes(out.txt)

C7_Witness ==
    /\ out.op = "SnakeCase::try_from_str" /\ out.ok
    /\ Len(out.txt) >= 2

\* C8: a call of is_snake_case never panics: the loop is entered only with
\* len >= 1, so len - 1 does not underflow; at the head of the loop
\* 1 <= i <= len, and bytes[i] is read only past the test i >= len - 1, so
\* with i < len; and fewer than len iterations have begun, each adding one
\* to i, so the loop ends within len iterations.
C8_Total ==
    LET len == Len(as_bytes(string)) IN
    /\ pc # "panic"
    /\ iters <= len
    /\ pc = "loop" =>
        /\ len >= 1
        /\ 1 <= i /\ i <= len
        /\ i = iters + 1
        /\ iters < len

C8_Witness == pc = "done" /\ ret /\ iters >= 2

\* C9: no operation changes the content of a value that exists, nor the
\* text the caller holds: a step only adds values.
C9_Immutable ==
    [][/\ input' = input
       /\ Len(vals') >= Len(vals)
       /\ \A k \in 1..Len(vals) : vals'[k] = vals[k]]_vars

C9_Witness == out.op = "to_owned" /\ out.b = 1 /\ Len(vals) = 2

\* C10: a finished call of is_snake_case on a text with a multi-byte
\* character, at any position, returned false.
C10_MultiByteRejected ==
    (pc = "done" /\ HasMultiByte(string)) => ~ret

C10_Witness ==
    /\ pc = "done" /\ ~ret
    /\ Len(string) >= 2
    /\ string[1] = 97
    /\ string[Len(string)] >= 128
    /\ \A k \in 1..(Len(string) - 1) : string[k] < 128

====
